---- MODULE Spec2Model ----
(***************************************************************************)
(* Model of fetch_hyrox.py: the incremental collection driver (main,       *)
(* scrape_combo, load_done_keys), the category classifier and the output   *)
(* store (hyrox_results.csv).                                              *)
(*                                                                         *)
(* Text is modelled as a sequence of one-character strings, so that        *)
(* str.upper, str.startswith and the `in` substring test are computed.     *)
(* A line of the store is a record of the CSV columns; the athlete columns *)
(* are represented by the rank alone.                                      *)
(***************************************************************************)
EXTENDS Integers, Sequences, FiniteSets, TLC

\* ---------------------------------------------------------------- bounds
NumSeasons   == 2    \* the first NumSeasons entries of SEASON_BASES are run
MaxRuns      == 2    \* number of times the program is started
MaxRows      == 1    \* athlete rows a results page can carry
MaxSuffixLen == 2    \* length of the tail appended to a classifier input
MaxDigits    == 2    \* digits of the hours part of a total_time cell

\* ------------------------------------------------------ program constants
PER_PAGE  == 25
MAX_PAGES == 4
ONLY_OPEN == TRUE

SEASON_BASES ==
  << "Season 1", "Season 2", "Season 3", "Season 4",
     "Season 5", "Season 6", "Season 7", "Season 8" >>

GENDERS == << "M" >>

CATEGORY_PREFIXES ==
  << [prefix |-> <<"H","P","R","O","_">>, name |-> "HYROX PRO"],
     [prefix |-> <<"H","D","P","_">>,     name |-> "HYROX PRO DOUBLES"],
     [prefix |-> <<"H","D","_">>,         name |-> "HYROX DOUBLES"],
     [prefix |-> <<"H","M","R","_">>,     name |-> "HYROX TEAM RELAY"],
     [prefix |-> <<"H","A","_">>,         name |-> "HYROX ADAPTIVE"],
     [prefix |-> <<"H","Y","1","_">>,     name |-> "HYROX YOUNGSTARS"],
     [prefix |-> <<"H","G","_">>,         name |-> "HYROX GORUCK"],
     [prefix |-> <<"H","E","_">>,         name |-> "HYROX ELITE"],
     [prefix |-> <<"W","C","H","E">>,     name |-> "WCHE ELITE"],
     [prefix |-> <<"H","_">>,             name |-> "HYROX"] >>

DEFAULT_CATEGORY == "HYROX"

\* --------------------------------------------------------- text helpers
Min(a, b) == IF a <= b THEN a ELSE b

\* str.upper on one character
UpperChar(c) ==
  CASE c = "a" -> "A" [] c = "b" -> "B" [] c = "c" -> "C" [] c = "d" -> "D"
    [] c = "e" -> "E" [] c = "f" -> "F" [] c = "g" -> "G" [] c = "h" -> "H"
    [] c = "i" -> "I" [] c = "j" -> "J" [] c = "k" -> "K" [] c = "l" -> "L"
    [] c = "m" -> "M" [] c = "n" -> "N" [] c = "o" -> "O" [] c = "p" -> "P"
    [] c = "q" -> "Q" [] c = "r" -> "R" [] c = "s" -> "S" [] c = "t" -> "T"
    [] c = "u" -> "U" [] c = "v" -> "V" [] c = "w" -> "W" [] c = "x" -> "X"
    [] c = "y" -> "Y" [] c = "z" -> "Z" [] OTHER -> c

\* str.lower on one character (rank.lower() and the case variants of inputs)
LowerChar(c) ==
  CASE c = "A" -> "a" [] c = "B" -> "b" [] c = "C" -> "c" [] c = "D" -> "d"
    [] c = "E" -> "e" [] c = "F" -> "f" [] c = "G" -> "g" [] c = "H" -> "h"
    [] c = "I" -> "i" [] c = "J" -> "j" [] c = "K" -> "k" [] c = "L" -> "l"
    [] c = "M" -> "m" [] c = "N" -> "n" [] c = "O" -> "o" [] c = "P" -> "p"
    [] c = "Q" -> "q" [] c = "R" -> "r" [] c = "S" -> "s" [] c = "T" -> "t"
    [] c = "U" -> "u" [] c = "V" -> "v" [] c = "W" -> "w" [] c = "X" -> "x"
    [] c = "Y" -> "y" [] c = "Z" -> "z" [] OTHER -> c

Upper(s) == [i \in 1..Len(s) |-> UpperChar(s[i])]
Lower(s) == [i \in 1..Len(s) |-> LowerChar(s[i])]

\* s.startswith(p)
StartsWith(s, p) == Len(p) <= Len(s) /\ SubSeq(s, 1, Len(p)) = p

\* needle in s
Contains(s, needle) ==
  \E i \in 1..(Len(s) - Len(needle) + 1) :
     SubSeq(s, i, i + Len(needle) - 1) = needle

OVERALL == <<"O","V","E","R","A","L","L">>

\* ------------------------------------------------- category_from_code
RECURSIVE FirstMatchRaw(_, _)
FirstMatchRaw(code, i) ==
  IF i > Len(CATEGORY_PREFIXES) THEN DEFAULT_CATEGORY
  ELSE IF StartsWith(code, CATEGORY_PREFIXES[i].prefix)
       THEN CATEGORY_PREFIXES[i].name
       ELSE FirstMatchRaw(code, i + 1)

\* mutant: the comparison without code.upper()
category_from_code_cased(code) == FirstMatchRaw(code, 1)

\* the first entry of CATEGORY_PREFIXES, in insertion order, that the
\* upper-cased code starts with; the default when none does
category_from_code(code) == FirstMatchRaw(Upper(code), 1)

\* ------------------------------------------------------- the output store
\* FIELDNAMES as the header line of hyrox_results.csv (rank 0 stands for the
\* column title of the rank column)
FIELDNAMES ==
  [ season           |-> "season",
    event_main_group |-> "event_main_group",
    event_code       |-> <<"e","v","e","n","t","_","c","o","d","e">>,
    event_label      |-> "event_label",
    category         |-> "category",
    gender           |-> "gender",
    rank             |-> 0 ]

\* mutant: the reader drops one data line too many
load_done_keys_skip(file) ==
  { <<file[i].event_code, file[i].gender>> : i \in 3..Len(file) }

\* csv.DictReader takes the first line as the column names and yields the
\* (event_code, gender) pair of every later line
load_done_keys(file) ==
  { <<file[i].event_code, file[i].gender>> : i \in 2..Len(file) }

\* mutant: the store opened in mode "w"
open_truncate(file) == << >>

\* open(OUTPUT_FILE, "a"): the lines present are kept
open_append(file) == file

\* mutant: every run writes the header
write_header_always(file) == TRUE

\* write_header = not OUTPUT_FILE.exists() or OUTPUT_FILE.stat().st_size == 0
\* (a missing file and a file of size zero are both the empty sequence)
write_header(file) == Len(file) = 0

\* ------------------------------------------------------ paging arithmetic
\* mutant: floor instead of ceiling
total_pages_floor(count) == count \div PER_PAGE

total_pages_of(count) == (count + PER_PAGE - 1) \div PER_PAGE

fetch_pages_of(pages) == Min(pages, MAX_PAGES)

\* ------------------------------------------------- what upstream can send
\* event groups, as get_event_groups returns them
EG1 == [value |-> "2024_BERLIN", text |-> "2024 Berlin"]
EG2 == [value |-> "2025_PORTO",  text |-> "2025 Porto"]

GroupLists == { <<EG1>>, <<EG1, EG2>> }

\* event options, as get_event_codes returns them; isstr tells whether the
\* JSON value v[0] is a string (it is null in OPT_NULL)
OPT_OVERALL == [value |-> <<"H","_","o","v","e","r","a","l","l">>,
                text |-> "Overall", isstr |-> TRUE]
OPT_DAY     == [value |-> <<"h","_","S","A","T">>,
                text |-> "Saturday", isstr |-> TRUE]
OPT_PRO     == [value |-> <<"H","P","R","O","_","O","V","E","R","A","L","L">>,
                text |-> "Pro Overall", isstr |-> TRUE]
OPT_PLAIN   == [value |-> <<"X","1">>,
                text |-> "Sunday", isstr |-> TRUE]
OPT_NULL    == [value |-> << >>,
                text |-> "Broken", isstr |-> FALSE]

AllOpts == << OPT_OVERALL, OPT_DAY, OPT_PRO, OPT_NULL >>

RECURSIVE Pick(_, _, _)
Pick(seq, S, i) ==
  IF i > Len(seq) THEN << >>
  ELSE (IF i \in S THEN << seq[i] >> ELSE << >>) \o Pick(seq, S, i + 1)

\* the non-empty option lists: every selection of AllOpts, in that order
OptionLists == { Pick(AllOpts, S, 1) : S \in (SUBSET (1..Len(AllOpts))) \ {{}} }

\* the lists of a group that offers at most one Open event
PagingLists == { << OPT_PRO, OPT_PLAIN >>, << OPT_PRO >>, << OPT_NULL >> }

\* the total count of a ranking of two pages
WideCounts == { 30 }

\* total counts the summary element of page 1 can report
TotalCounts ==
  { 1, 24, 25, 26, 30, 50, 51, 75, 76, 99, 100, 101, 125, 1883 }

\* the athletes parse_result_rows finds on a page carrying k rows
Athletes(k, page) == [i \in 1..k |-> [rank |-> (page - 1) * PER_PAGE + i]]

\* ------------------------------------------------------------------ state
VARIABLES
  store,         \* lines of hyrox_results.csv that are on disk
  buf,           \* lines written to csvfile and not yet flushed
  who,           \* history: for each line of store \o buf, the scrape_combo
                 \* call that wrote it (its comboStart; 0 for the header)
  run,           \* number of runs started so far
  pc,            \* where main is: idle, season, group, opts, combo, write,
                 \* flush, fetch, returned, finished, crashed, aborted
  done_keys,     \* done_keys of main
  season,        \* index into SEASON_BASES of the season being processed
  event_groups,  \* event_groups of main
  eg,            \* index of the current event group
  event_opts,    \* event_opts of main
  use_opts,      \* use_opts of main
  ev,            \* index into use_opts
  sx,            \* index into GENDERS
  total_count, total_pages, fetch_pages, page_num, soup,  \* scrape_combo locals
  runStart,      \* history: length of the store when the run started
  comboStart,    \* history: lines written before this scrape_combo call
  reqPages,      \* history: page numbers requested by this scrape_combo call
  nflush,        \* history: flushes done by this scrape_combo call
  parsed,        \* history: athletes parsed from each page of this call
  outcome,       \* history: how this scrape_combo call ended
  collected,     \* history: codes passed to scrape_combo for this group
  cutNow,        \* history: keys cut short in this run after a flush
  cutPrev,       \* history: keys cut short in an earlier run after a flush
  slept,         \* polite_get: time.sleep(REQUEST_DELAY) has returned
  inflight,      \* requests.get calls issued and not yet returned or failed
  cl_code,       \* classifier input
  cl_label,      \* classifier output ("?" before the call)
  pr_soup,       \* parse_result_rows input: the rows of one results page
  pr_out,        \* parse_result_rows: the values returned so far
  ts_t,          \* load_data input: the total_time column of the store
  ts_out,        \* load_data: the values returned so far
  js_resp,       \* response given to get_event_groups / get_event_codes
  js_out         \* the calls made so far: what each returned or raised

fileVars  == << store, buf, who >>
loopVars  == << season, event_groups, eg, event_opts, use_opts, ev, sx >>
comboVars == << total_count, total_pages, fetch_pages, page_num, soup >>
histVars  == << comboStart, reqPages, nflush, parsed, outcome >>
cutVars   == << cutNow, cutPrev >>
netVars   == << slept, inflight >>
clVars    == << cl_code, cl_label >>
pureVars  == << clVars, pr_soup, pr_out, ts_t, ts_out, js_resp, js_out >>

vars == << store, buf, who, run, pc, done_keys, season, event_groups, eg,
           event_opts, use_opts, ev, sx, total_count, total_pages,
           fetch_pages, page_num, soup, runStart, comboStart, reqPages,
           nflush, parsed, outcome, collected, cutNow, cutPrev, slept, inflight,
           cl_code, cl_label, pr_soup, pr_out, ts_t, ts_out,
           js_resp, js_out >>

Stopped == { "idle", "finished", "crashed", "aborted" }
InKey   == { "write", "flush", "fetch" }

\* the (event_code, gender) pair scrape_combo is called with
CurKey == << use_opts[ev].value, GENDERS[sx] >>

InitDriver ==
  /\ store = << >> /\ buf = << >> /\ who = << >>
  /\ run = 0 /\ pc = "idle"
  /\ done_keys = {}
  /\ season = 0 /\ event_groups = << >> /\ eg = 0
  /\ event_opts = << >> /\ use_opts = << >> /\ ev = 0 /\ sx = 0
  /\ total_count = 0 /\ total_pages = 0 /\ fetch_pages = 0
  /\ page_num = 0 /\ soup = << >>
  /\ runStart = 0 /\ comboStart = 0 /\ reqPages = << >> /\ nflush = 0
  /\ parsed = << >> /\ outcome = "none" /\ collected = {}
  /\ cutNow = {} /\ cutPrev = {}
  /\ slept = FALSE /\ inflight = 0

\* no pure function has been called
InitPure ==
  /\ cl_code = << >> /\ cl_label = "?"
  /\ pr_soup = << >> /\ pr_out = << >>
  /\ ts_t = << >> /\ ts_out = << >>
  /\ js_resp = << >> /\ js_out = << >>

Init == InitDriver /\ InitPure

\* who for a file of n lines, the lines that are new written by call id
Stamp(n, id) == [i \in 1..n |-> IF i <= Len(who) THEN who[i] ELSE id]

\* ----------------------------------------------------- leaving a scope
\* the locals of scrape_combo go out of scope
ResetCombo ==
  /\ total_count' = 0 /\ total_pages' = 0 /\ fetch_pages' = 0
  /\ page_num' = 0 /\ soup' = << >>
  /\ comboStart' = 0 /\ reqPages' = << >> /\ nflush' = 0
  /\ parsed' = << >> /\ outcome' = "none"

\* the loop body of one event group is left
ResetGroup ==
  /\ event_opts' = << >> /\ use_opts' = << >> /\ ev' = 0 /\ sx' = 0
  /\ collected' = {}

\* the process ends: everything in memory is gone
ResetProcess ==
  /\ done_keys' = {}
  /\ season' = 0 /\ event_groups' = << >> /\ eg' = 0
  /\ ResetGroup /\ ResetCombo

\* ------------------------------------------------------------ polite_get
\* main is at a call of polite_get: get_event_groups, get_event_codes,
\* get_results_page for page 1 of a key not in done_keys, or for a later page
AtRequest ==
  \/ pc = "season" /\ season <= NumSeasons
  \/ pc = "group" /\ eg <= Len(event_groups)
  \/ pc = "combo" /\ ev <= Len(use_opts) /\ CurKey \notin done_keys
  \/ pc = "fetch"

\* time.sleep(REQUEST_DELAY)
PoliteSleep ==
  /\ AtRequest /\ ~slept /\ inflight = 0
  /\ slept' = TRUE
  /\ UNCHANGED << fileVars, run, pc, done_keys, loopVars, comboVars,
                  runStart, histVars, collected, cutVars, inflight,
                  pureVars >>

\* mutant: the request goes out without the pause
PoliteSend_nodelay ==
  /\ AtRequest /\ inflight = 0
  /\ inflight' = inflight + 1 /\ slept' = FALSE
  /\ UNCHANGED << fileVars, run, pc, done_keys, loopVars, comboVars,
                  runStart, histVars, collected, cutVars, pureVars >>

\* requests.get(...) is called: the request is on its way
PoliteSend ==
  /\ AtRequest /\ slept /\ inflight = 0
  /\ inflight' = inflight + 1 /\ slept' = FALSE
  /\ UNCHANGED << fileVars, run, pc, done_keys, loopVars, comboVars,
                  runStart, histVars, collected, cutVars, pureVars >>

\* requests.get returns or raises, or raise_for_status raises
Responded == inflight > 0 /\ inflight' = inflight - 1 /\ UNCHANGED slept

\* ------------------------------------------------------------------ main
\* main up to the season loop: load_done_keys, write_header, open, writeheader
StartRun ==
  /\ pc \in Stopped /\ run < MaxRuns
  /\ run' = run + 1
  /\ done_keys' = load_done_keys(store)
  /\ store' = open_append(store)
  /\ buf' = IF write_header(store) THEN << FIELDNAMES >> ELSE << >>
  /\ who' = Stamp(Len(store') + Len(buf'), 0)
  /\ season' = 1 /\ pc' = "season"
  /\ runStart' = Len(store)
  /\ cutPrev' = cutPrev \cup cutNow /\ cutNow' = {}
  /\ UNCHANGED << event_groups, eg, event_opts, use_opts, ev, sx, collected >>
  /\ UNCHANGED << comboVars, histVars, pureVars, netVars >>

\* get_event_groups raises (network error, HTTP status, a shape that raises):
\* main logs and goes on with the next season
GetEventGroupsError ==
  /\ pc = "season" /\ season <= NumSeasons
  /\ Responded
  /\ season' = season + 1
  /\ UNCHANGED << fileVars, run, pc, done_keys, event_groups, eg, event_opts,
                  use_opts, ev, sx, runStart, collected >>
  /\ UNCHANGED << comboVars, histVars, cutVars, pureVars >>

\* get_event_groups returns []: season without events
GetEventGroupsEmpty ==
  /\ pc = "season" /\ season <= NumSeasons
  /\ Responded
  /\ season' = season + 1
  /\ UNCHANGED << fileVars, run, pc, done_keys, event_groups, eg, event_opts,
                  use_opts, ev, sx, runStart, collected >>
  /\ UNCHANGED << comboVars, histVars, cutVars, pureVars >>

\* get_event_groups returns a non-empty list
GetEventGroupsOk(lists) ==
  /\ pc = "season" /\ season <= NumSeasons
  /\ Responded
  /\ \E groups \in lists : event_groups' = groups
  /\ eg' = 1 /\ pc' = "group"
  /\ UNCHANGED << fileVars, run, done_keys, season, event_opts, use_opts,
                  ev, sx, runStart, collected >>
  /\ UNCHANGED << comboVars, histVars, cutVars, pureVars >>

\* the event groups of the season are exhausted
SeasonDone ==
  /\ pc = "group" /\ eg > Len(event_groups)
  /\ season' = season + 1 /\ event_groups' = << >> /\ eg' = 0
  /\ pc' = "season"
  /\ UNCHANGED << fileVars, run, done_keys, event_opts, use_opts, ev, sx,
                  runStart, collected >>
  /\ UNCHANGED << comboVars, histVars, cutVars, pureVars, netVars >>

\* get_event_codes raises: main logs and goes on with the next group
GetEventCodesError ==
  /\ pc = "group" /\ eg <= Len(event_groups)
  /\ Responded
  /\ eg' = eg + 1
  /\ UNCHANGED << fileVars, run, pc, done_keys, season, event_groups,
                  event_opts, use_opts, ev, sx, runStart, collected >>
  /\ UNCHANGED << comboVars, histVars, cutVars, pureVars >>

\* get_event_codes returns []: group without event codes
GetEventCodesEmpty ==
  /\ pc = "group" /\ eg <= Len(event_groups)
  /\ Responded
  /\ eg' = eg + 1
  /\ UNCHANGED << fileVars, run, pc, done_keys, season, event_groups,
                  event_opts, use_opts, ev, sx, runStart, collected >>
  /\ UNCHANGED << comboVars, histVars, cutVars, pureVars >>

\* get_event_codes returns a non-empty list
GetEventCodesOk(lists) ==
  /\ pc = "group" /\ eg <= Len(event_groups)
  /\ Responded
  /\ \E opts \in lists : event_opts' = opts
  /\ pc' = "opts"
  /\ UNCHANGED << fileVars, run, done_keys, season, event_groups, eg,
                  use_opts, ev, sx, runStart, collected >>
  /\ UNCHANGED << comboVars, histVars, cutVars, pureVars >>

\* o["value"] of a JSON null has no upper(): category_from_code raises
CodeRaises(o) == ~ o.isstr

\* mutant: the filter looks for the Open prefix itself
IsOpen_prefixed(o) == StartsWith(Upper(o.value), <<"H","_">>)

\* category_from_code(o["value"]) == "HYROX"
IsOpen(o) == category_from_code(o.value) = "HYROX"

IsOverall(o) == Contains(Upper(o.value), OVERALL)

NotOverall(o) == ~ Contains(Upper(o.value), OVERALL)

\* the list comprehension of the ONLY_OPEN filter
open_opts_of(opts) == IF ONLY_OPEN THEN SelectSeq(opts, IsOpen) ELSE opts

\* mutant: overall and per-day codes are both kept
use_opts_all(opts) == opts

\* overall if overall else non_overall
use_opts_of(opts) ==
  LET overall     == SelectSeq(opts, IsOverall)
      non_overall == SelectSeq(opts, NotOverall)
  IN  IF overall # << >> THEN overall ELSE non_overall

\* the ONLY_OPEN filter raises AttributeError outside every try block: the
\* exception leaves main through the with block, which closes the file
FilterRaises ==
  /\ pc = "opts" /\ ONLY_OPEN
  /\ \E i \in 1..Len(event_opts) : CodeRaises(event_opts[i])
  /\ store' = store \o buf /\ buf' = << >> /\ UNCHANGED who
  /\ pc' = "aborted"
  /\ ResetProcess
  /\ UNCHANGED << run, runStart, cutVars, pureVars, netVars >>

\* no Open event in the group: next group
NoOpenEvents ==
  /\ pc = "opts"
  /\ \A i \in 1..Len(event_opts) : ~ CodeRaises(event_opts[i])
  /\ open_opts_of(event_opts) = << >>
  /\ eg' = eg + 1 /\ pc' = "group"
  /\ ResetGroup
  /\ UNCHANGED << fileVars, run, done_keys, season, event_groups, runStart >>
  /\ UNCHANGED << comboVars, histVars, cutVars, pureVars, netVars >>

\* the filter and the choice between overall and per-day codes
SelectOpts ==
  /\ pc = "opts"
  /\ \A i \in 1..Len(event_opts) : ~ CodeRaises(event_opts[i])
  /\ open_opts_of(event_opts) # << >>
  /\ event_opts' = open_opts_of(event_opts)
  /\ use_opts' = use_opts_of(open_opts_of(event_opts))
  /\ ev' = 1 /\ sx' = 1 /\ pc' = "combo"
  /\ UNCHANGED << fileVars, run, done_keys, season, event_groups, eg,
                  runStart, collected >>
  /\ UNCHANGED << comboVars, histVars, cutVars, pureVars, netVars >>

\* the options of the group are exhausted
GroupDone ==
  /\ pc = "combo" /\ ev > Len(use_opts)
  /\ eg' = eg + 1 /\ pc' = "group"
  /\ ResetGroup
  /\ UNCHANGED << fileVars, run, done_keys, season, event_groups, runStart >>
  /\ UNCHANGED << comboVars, histVars, cutVars, pureVars, netVars >>

\* the season loop is exhausted: the with block closes the file and main ends
Finish ==
  /\ pc = "season" /\ season > NumSeasons
  /\ store' = store \o buf /\ buf' = << >> /\ UNCHANGED who
  /\ pc' = "finished"
  /\ ResetProcess
  /\ UNCHANGED << run, runStart, cutVars, pureVars, netVars >>

\* ---------------------------------------------------------- scrape_combo
\* mutant: the label of the event group in place of the label of the event
Row_grouplabel(a) ==
  [ season           |-> SEASON_BASES[season],
    event_main_group |-> event_groups[eg].value,
    event_code       |-> use_opts[ev].value,
    event_label      |-> event_groups[eg].text,
    category         |-> category_from_code(use_opts[ev].value),
    gender           |-> GENDERS[sx],
    rank             |-> a.rank ]

\* the row writer.writerow receives for athlete a
Row(a) ==
  [ season           |-> SEASON_BASES[season],
    event_main_group |-> event_groups[eg].value,
    event_code       |-> use_opts[ev].value,
    event_label      |-> use_opts[ev].text,
    category         |-> category_from_code(use_opts[ev].value),
    gender           |-> GENDERS[sx],
    rank             |-> a.rank ]

\* scrape_combo is entered: what every path through it records
EnterCombo ==
  /\ pc = "combo" /\ ev <= Len(use_opts)
  /\ collected' = collected \cup { use_opts[ev].value }
  /\ comboStart' = Len(store) + Len(buf)

\* key in done_keys: return before any request
ScrapeSkip ==
  /\ EnterCombo
  /\ CurKey \in done_keys
  /\ outcome' = "skipped" /\ pc' = "returned"
  /\ UNCHANGED << fileVars, run, done_keys, loopVars, runStart >>
  /\ UNCHANGED << comboVars, reqPages, nflush, parsed, cutVars, pureVars,
                  netVars >>

\* the request for page 1 raises: return
ScrapePage1Error ==
  /\ EnterCombo
  /\ Responded
  /\ CurKey \notin done_keys
  /\ reqPages' = << 1 >>
  /\ outcome' = "error" /\ pc' = "returned"
  /\ UNCHANGED << fileVars, run, done_keys, loopVars, runStart >>
  /\ UNCHANGED << comboVars, nflush, parsed, cutVars, pureVars >>

\* page 1 reports no results (or has no summary element): return
ScrapePage1Empty ==
  /\ EnterCombo
  /\ Responded
  /\ CurKey \notin done_keys
  /\ reqPages' = << 1 >>
  /\ total_count' = 0
  /\ outcome' = "empty" /\ pc' = "returned"
  /\ UNCHANGED << fileVars, run, done_keys, loopVars, runStart >>
  /\ UNCHANGED << total_pages, fetch_pages, page_num, soup >>
  /\ UNCHANGED << nflush, parsed, cutVars, pureVars >>

\* page 1 reports count results and carries k athlete rows
ScrapePage1Ok(counts, rows) ==
  /\ EnterCombo
  /\ Responded
  /\ CurKey \notin done_keys
  /\ \E count \in counts, k \in rows :
       /\ total_count' = count
       /\ total_pages' = total_pages_of(count)
       /\ fetch_pages' = fetch_pages_of(total_pages_of(count))
       /\ soup' = Athletes(k, 1)
       /\ parsed' = << Athletes(k, 1) >>
  /\ reqPages' = << 1 >>
  /\ page_num' = 1 /\ pc' = "write"
  /\ UNCHANGED << fileVars, run, done_keys, loopVars, runStart >>
  /\ UNCHANGED << nflush, outcome, cutVars, pureVars >>

\* the writer.writerow loop over the athletes of the page
WritePage ==
  /\ pc = "write"
  /\ buf' = buf \o [i \in 1..Len(soup) |-> Row(soup[i])]
  /\ who' = Stamp(Len(store) + Len(buf'), comboStart)
  /\ pc' = "flush"
  /\ UNCHANGED << store, run, done_keys, loopVars, runStart, collected >>
  /\ UNCHANGED << comboVars, histVars, cutVars, pureVars, netVars >>

\* mutant: the flush is left to the end of the run
FlushPage_deferred ==
  /\ pc = "flush"
  /\ nflush' = nflush + 1
  /\ IF page_num < fetch_pages
       THEN /\ page_num' = page_num + 1 /\ pc' = "fetch"
            /\ UNCHANGED << done_keys, outcome >>
       ELSE /\ done_keys' = done_keys \cup { CurKey }
            /\ outcome' = "done" /\ pc' = "returned"
            /\ UNCHANGED page_num
  /\ UNCHANGED << fileVars, run, loopVars, runStart, collected >>
  /\ UNCHANGED << total_count, total_pages, fetch_pages, soup >>
  /\ UNCHANGED << comboStart, reqPages, parsed, cutVars, pureVars, netVars >>

\* csvfile.flush(), then the loop goes on with the next page or ends and
\* done_keys.add(key) runs
FlushPage ==
  /\ pc = "flush"
  /\ store' = store \o buf /\ buf' = << >> /\ UNCHANGED who
  /\ nflush' = nflush + 1
  /\ IF page_num < fetch_pages
       THEN /\ page_num' = page_num + 1 /\ pc' = "fetch"
            /\ UNCHANGED << done_keys, outcome >>
       ELSE /\ done_keys' = done_keys \cup { CurKey }
            /\ outcome' = "done" /\ pc' = "returned"
            /\ UNCHANGED page_num
  /\ UNCHANGED << run, loopVars, runStart, collected >>
  /\ UNCHANGED << total_count, total_pages, fetch_pages, soup >>
  /\ UNCHANGED << comboStart, reqPages, parsed, cutVars, pureVars, netVars >>

\* mutant: the later pages are requested from the last one down
FetchPageOk_backwards(rows) ==
  /\ pc = "fetch"
  /\ Responded
  /\ \E k \in rows :
       /\ soup' = Athletes(k, fetch_pages - page_num + 2)
       /\ parsed' = Append(parsed, Athletes(k, fetch_pages - page_num + 2))
  /\ reqPages' = Append(reqPages, page_num)
  /\ pc' = "write"
  /\ UNCHANGED << fileVars, run, done_keys, loopVars, runStart, collected >>
  /\ UNCHANGED << total_count, total_pages, fetch_pages, page_num >>
  /\ UNCHANGED << comboStart, nflush, outcome, cutVars, pureVars >>

\* the request for page page_num > 1 returns a page carrying k athlete rows
FetchPageOk(rows) ==
  /\ pc = "fetch"
  /\ Responded
  /\ \E k \in rows :
       /\ soup' = Athletes(k, page_num)
       /\ parsed' = Append(parsed, Athletes(k, page_num))
  /\ reqPages' = Append(reqPages, page_num)
  /\ pc' = "write"
  /\ UNCHANGED << fileVars, run, done_keys, loopVars, runStart, collected >>
  /\ UNCHANGED << total_count, total_pages, fetch_pages, page_num >>
  /\ UNCHANGED << comboStart, nflush, outcome, cutVars, pureVars >>

\* mutant: the page error returns instead of breaking out of the loop
FetchPageError_return ==
  /\ pc = "fetch"
  /\ Responded
  /\ reqPages' = Append(reqPages, page_num)
  /\ outcome' = "partial" /\ pc' = "returned"
  /\ cutNow' = cutNow \cup { CurKey }
  /\ UNCHANGED << fileVars, run, done_keys, loopVars, runStart, collected >>
  /\ UNCHANGED << comboVars, comboStart, nflush, parsed, cutPrev, pureVars >>

\* the request for page page_num > 1 raises: break, then done_keys.add(key)
FetchPageError ==
  /\ pc = "fetch"
  /\ Responded
  /\ reqPages' = Append(reqPages, page_num)
  /\ done_keys' = done_keys \cup { CurKey }
  /\ outcome' = "partial" /\ pc' = "returned"
  /\ cutNow' = cutNow \cup { CurKey }
  /\ UNCHANGED << fileVars, run, loopVars, runStart, collected >>
  /\ UNCHANGED << comboVars, comboStart, nflush, parsed, cutPrev, pureVars >>

\* scrape_combo returns to the gender and option loops of main
ScrapeReturn ==
  /\ pc = "returned"
  /\ IF sx < Len(GENDERS)
       THEN sx' = sx + 1 /\ ev' = ev
       ELSE sx' = 1 /\ ev' = ev + 1
  /\ pc' = "combo"
  /\ ResetCombo
  /\ UNCHANGED << fileVars, run, done_keys, season, event_groups, eg,
                  event_opts, use_opts, runStart, collected, cutVars, pureVars,
                  netVars >>

\* ------------------------------------------------------ process termination
\* The process is terminated while running. What was flushed stays; of the
\* lines still buffered any leading part may have reached the file (none
\* when the process is killed, all when the interpreter unwinds and closes
\* the file).  Lines reach the file whole: a line cut in the middle
\* is not modelled.
Crash ==
  /\ pc \notin Stopped
  /\ \E k \in 0..Len(buf) :
       /\ store' = store \o SubSeq(buf, 1, k)
       /\ who' = SubSeq(who, 1, Len(store) + k)
       /\ cutNow' = IF /\ pc \in InKey
                       /\ (nflush >= 1 \/ (pc = "flush" /\ k = Len(buf)))
                    THEN cutNow \cup { CurKey } ELSE cutNow
  /\ buf' = << >>
  /\ pc' = "crashed"
  /\ ResetProcess
  /\ slept' = FALSE /\ inflight' = 0
  /\ UNCHANGED << run, runStart, cutPrev, pureVars >>

\* ------------------------------------------------------------ the driver
\* one step of the program against an upstream that answers get_event_groups
\* from groupLists, get_event_codes from optLists, and serves results pages
\* whose summary reports a count in counts and that carry a number of rows
\* in rows
Driver(groupLists, optLists, counts, rows) ==
  \/ StartRun
  \/ PoliteSleep \/ PoliteSend
  \/ GetEventGroupsError \/ GetEventGroupsEmpty
  \/ GetEventGroupsOk(groupLists)
  \/ SeasonDone
  \/ GetEventCodesError \/ GetEventCodesEmpty
  \/ GetEventCodesOk(optLists)
  \/ FilterRaises \/ NoOpenEvents \/ SelectOpts
  \/ GroupDone
  \/ ScrapeSkip \/ ScrapePage1Error \/ ScrapePage1Empty
  \/ ScrapePage1Ok(counts, rows)
  \/ WritePage \/ FlushPage
  \/ FetchPageOk(rows) \/ FetchPageError
  \/ ScrapeReturn
  \/ Finish
  \/ Crash

\* discovery in full, rankings of two full pages
Next == Driver(GroupLists, OptionLists, WideCounts, {MaxRows})

Spec == Init /\ [][Next]_vars

\* groups with at most one Open event, results pages in full
NextPaging == Driver(GroupLists, PagingLists, TotalCounts, 0..MaxRows)

SpecPaging == Init /\ [][NextPaging]_vars

\* groups with at most one Open event, rankings of two and of four pages,
\* pages of up to two rows
NextRanks == Driver(GroupLists, PagingLists, { 26, 76 }, { 0, 1, 2 })

SpecRanks == Init /\ [][NextRanks]_vars

\* an upstream without failures that offers the same two Open event codes
\* under both event groups of every season, every ranking of two pages; the
\* order of the groups and of the options is any
NextOrder ==
  \/ StartRun
  \/ PoliteSleep \/ PoliteSend
  \/ GetEventGroupsOk({ << EG1, EG2 >>, << EG2, EG1 >> })
  \/ SeasonDone
  \/ GetEventCodesOk({ << OPT_DAY, OPT_PLAIN >>, << OPT_PLAIN, OPT_DAY >> })
  \/ SelectOpts
  \/ GroupDone
  \/ ScrapeSkip
  \/ ScrapePage1Ok(WideCounts, {MaxRows})
  \/ WritePage \/ FlushPage
  \/ FetchPageOk({MaxRows})
  \/ ScrapeReturn
  \/ Finish

SpecOrder == Init /\ [][NextOrder]_vars

\* ----------------------------------------------------- the classifier alone
\* the configured prefixes and their leading parts
Stems ==
  UNION { { SubSeq(CATEGORY_PREFIXES[i].prefix, 1, j) :
              j \in 0..Len(CATEGORY_PREFIXES[i].prefix) } :
          i \in 1..Len(CATEGORY_PREFIXES) }

TailChars == { "_", "P", "e", "1" }

Tails == UNION { [1..n -> TailChars] : n \in 0..MaxSuffixLen }

\* s as it is, in lower case, and with a lower-case first letter
Cased(s) ==
  { s, Lower(s), [i \in 1..Len(s) |-> IF i = 1 THEN LowerChar(s[i]) ELSE s[i]] }

\* event codes given to category_from_code
ClassifierInputs ==
  UNION { { c \o t : c \in Cased(stem), t \in Tails } : stem \in Stems }

InitClassify ==
  /\ InitDriver /\ cl_code \in ClassifierInputs /\ cl_label = "?"
  /\ pr_soup = << >> /\ pr_out = << >>
  /\ ts_t = << >> /\ ts_out = << >>
  /\ js_resp = << >> /\ js_out = << >>

\* one call of category_from_code
Classify ==
  /\ cl_label = "?"
  /\ cl_label' = category_from_code(cl_code)
  /\ UNCHANGED << fileVars, run, pc, done_keys, loopVars, comboVars,
                  runStart, histVars, collected, cutVars, netVars, cl_code,
                  pr_soup, pr_out, ts_t, ts_out, js_resp, js_out >>

NextClassify == Classify

SpecClassify == InitClassify /\ [][NextClassify]_vars

\* --------------------------------------------------- parse_result_rows
\* str.strip() on a text
RECURSIVE LStrip(_)
LStrip(s) == IF s # << >> /\ s[1] = " " THEN LStrip(Tail(s)) ELSE s

RECURSIVE RStrip(_)
RStrip(s) ==
  IF s # << >> /\ s[Len(s)] = " " THEN RStrip(SubSeq(s, 1, Len(s) - 1)) ELSE s

Strip(s) == LStrip(RStrip(s))

\* label.decompose() for every visible-xs / visible-sm child of an element:
\* an element is the sequence of its children, each with its text
RECURSIVE decompose_labels(_)
decompose_labels(el) ==
  IF el = << >> THEN << >>
  ELSE IF Head(el).mobile THEN decompose_labels(Tail(el))
       ELSE << Head(el) >> \o decompose_labels(Tail(el))

\* el.get_text(strip=True): the stripped strings of the element, joined
RECURSIVE get_text_strip(_)
get_text_strip(el) ==
  IF el = << >> THEN << >>
  ELSE Strip(Head(el).text) \o get_text_strip(Tail(el))

\* row.find(class_=...) and the conditional that follows it: a cell holds
\* the elements of the row that match the class; "" when there is none
cell_text(cell) ==
  IF cell = << >> THEN << >> ELSE get_text_strip(decompose_labels(cell[1]))

\* the class filter of soup.find_all("li", ...)
LIST_GROUP_ITEM ==
  <<"l","i","s","t","-","g","r","o","u","p","-","i","t","e","m">>

RANK_WORD == <<"r","a","n","k">>

is_result_row(li) ==
  li.cls # << >> /\ Contains(li.cls, LIST_GROUP_ITEM)
                 /\ Contains(li.cls, <<"r","o","w">>)

\* mutant: the header test without rank.lower()
is_header_rank_cased(rank) == rank = RANK_WORD \/ rank = << >>

\* rank.lower() in ("rank", "")
is_header_rank(rank) == Lower(rank) = RANK_WORD \/ Lower(rank) = << >>

\* the body of the loop over rows: the records one row adds to athletes
athletes_of_row(row) ==
  LET rank == cell_text(row.rank)
      name == cell_text(row.name)
      nat  == cell_text(row.nat)
      age  == cell_text(row.age)
      tot  == cell_text(row.time)
  IN  IF is_header_rank(rank) THEN << >>
      ELSE IF name = << >> THEN << >>
      ELSE << [ rank |-> rank, athlete |-> name, nationality |-> nat,
                age_group |-> age, total_time |-> tot ] >>

RECURSIVE parse_rows_from(_)
parse_rows_from(lis) ==
  IF lis = << >> THEN << >>
  ELSE (IF is_result_row(Head(lis)) THEN athletes_of_row(Head(lis))
        ELSE << >>) \o parse_rows_from(Tail(lis))

parse_result_rows(doc) == parse_rows_from(doc)

\* pages given to parse_result_rows
Txt(t)       == << << [mobile |-> FALSE, text |-> t] >> >>
Labelled(l, t) ==
  << << [mobile |-> TRUE, text |-> l], [mobile |-> FALSE, text |-> t] >> >>
NoCell       == << >>

\* result rows: each cell missing, empty, blank, padded, labelled or filled
ResultRows ==
  [ cls  : { LIST_GROUP_ITEM \o <<" ","r","o","w">>,
             LIST_GROUP_ITEM \o <<" ","r","o","w"," ","o","d","d">> },
    rank : { NoCell, Txt(<< >>), Txt(<<" ">>), Txt(<<"1">>),
             Txt(<<" ","2"," ">>), Txt(<<"R","a","n","k">>),
             Txt(<<"r","a","n","k">>), Txt(<<"R","A","N","K">>),
             Txt(<<" ","r","A","n","K"," ">>), Txt(<<"D","N","F">>),
             Labelled(<<"R","a","n","k">>, <<"3">>),
             Labelled(<<"R","a","n","k">>, << >>) },
    name : { NoCell, Txt(<< >>), Txt(<<"D","o","e",","," ","J">>),
             Labelled(<<"N","a","m","e">>, <<"R","o","e">>) },
    nat  : { NoCell, Txt(<<"P","O","R">>), Txt(<< >>) },
    age  : { NoCell, Txt(<<"3","0","-","3","4">>) },
    time : { NoCell, Txt(<<"0",":","5","2",":","1","3">>),
             Txt(<<" ","5","2",":","1","3">>) } ]

\* an athlete row with every cell
FULL_ROW ==
  [ cls  |-> LIST_GROUP_ITEM \o <<" ","r","o","w">>,
    rank |-> Txt(<<"7">>), name |-> Txt(<<"P","o","e">>),
    nat  |-> Txt(<<"E","S","P">>), age |-> Txt(<<"4","0">>),
    time |-> Txt(<<"1",":","0","0",":","0","0">>) ]

\* pages of one or two list items; the first may be no result row
Soups ==
  { << r >> : r \in ResultRows }
    \cup { << r, FULL_ROW >> : r \in ResultRows }
    \cup { << [FULL_ROW EXCEPT !.cls = c], FULL_ROW >> :
             c \in { LIST_GROUP_ITEM, << >> } }

InitParse ==
  /\ InitDriver
  /\ cl_code = << >> /\ cl_label = "?"
  /\ pr_soup \in Soups /\ pr_out = << >>
  /\ ts_t = << >> /\ ts_out = << >>
  /\ js_resp = << >> /\ js_out = << >>

\* one call of parse_result_rows
ParsePage ==
  /\ pr_out = << >>
  /\ pr_out' = << parse_result_rows(pr_soup) >>
  /\ UNCHANGED << fileVars, run, pc, done_keys, loopVars, comboVars,
                  runStart, histVars, collected, cutVars, netVars, clVars,
                  pr_soup, ts_t, ts_out, js_resp, js_out >>

SpecParse == InitParse /\ [][ParsePage]_vars

\* ------------------------------------------- dashboard.py: load_data
\* pd.read_csv(filepath, dtype=str): a field holding one of the default
\* missing-value markers is read as NaN, any other field as its text
NA_VALUES == { << >>, <<"N","A">>, <<"n","a","n">> }

pd_isna(t) == t \in NA_VALUES

DIGITS == <<"0","1","2","3","4","5","6","7","8","9">>

IsDigit(c) == \E d \in 1..10 : DIGITS[d] = c

DigitVal(c) == (CHOOSE d \in 1..10 : DIGITS[d] = c) - 1

\* int(s) for a string of decimal digits
RECURSIVE IntOf(_)
IntOf(s) ==
  IF s = << >> THEN 0
  ELSE 10 * IntOf(SubSeq(s, 1, Len(s) - 1)) + DigitVal(s[Len(s)])

\* \d+ and \d{2}
AllDigits(s) == s # << >> /\ \A i \in 1..Len(s) : IsDigit(s[i])
TwoDigits(s) == Len(s) = 2 /\ AllDigits(s)

\* the parts of t between its colons
RECURSIVE SplitColon(_)
SplitColon(t) ==
  IF \A i \in 1..Len(t) : t[i] # ":" THEN << t >>
  ELSE LET i == CHOOSE k \in 1..Len(t) :
                  t[k] = ":" /\ \A j \in 1..(k - 1) : t[j] # ":"
       IN  << SubSeq(t, 1, i - 1) >> \o SplitColon(SubSeq(t, i + 1, Len(t)))

\* mutant: the hours weighed as minutes
seconds_hms_60(h, m, s) == h * 60 + m * 60 + s

\* int(m.group(1)) * 3600 + int(m.group(2)) * 60 + int(m.group(3))
seconds_hms(h, m, s) == h * 3600 + m * 60 + s

\* to_seconds: the empty sequence stands for None, << n >> for the integer n
to_seconds(t) ==
  IF pd_isna(t) THEN << >>
  ELSE LET p == SplitColon(Strip(t))
       IN  IF Len(p) = 3 /\ AllDigits(p[1]) /\ TwoDigits(p[2])
                         /\ TwoDigits(p[3])
           THEN << seconds_hms(IntOf(p[1]), IntOf(p[2]), IntOf(p[3])) >>
           ELSE IF Len(p) = 2 /\ AllDigits(p[1]) /\ TwoDigits(p[2])
           THEN << IntOf(p[1]) * 60 + IntOf(p[2]) >>
           ELSE << >>

\* df["total_seconds"] = ...apply(to_seconds), then
\* df.dropna(subset=["total_seconds"]): the rows that are left, in order
RECURSIVE load_data(_)
load_data(col) ==
  IF col = << >> THEN << >>
  ELSE (IF to_seconds(Head(col)) = << >> THEN << >>
        ELSE << [ total_time    |-> Head(col),
                  total_seconds |-> to_seconds(Head(col))[1] ] >>)
       \o load_data(Tail(col))

\* total_time cells of hyrox_results.csv
HourTexts == UNION { [1..n -> { "0", "1", "5" }] : n \in 0..MaxDigits }

PartTexts == { << >>, <<"5">>, <<"1","3">>, <<"5","2">>, <<"9","9">>,
               <<"0","0","5">>, <<"1","x">>, <<" ","7">> }

TimeTexts ==
  { h \o <<":">> \o m \o <<":">> \o s :
      h \in HourTexts, m \in PartTexts, s \in PartTexts }
    \cup { h \o <<":">> \o s : h \in HourTexts, s \in PartTexts }
    \cup { << >>, <<"N","A">>, <<"n","a","n">>, <<"D","N","F">>,
           <<"5","2","1","3">>, <<"0",":","5","2",":","1","3">>,
           <<"5","2",":","1","3">>, <<" ","5","2",":","1","3"," ">>,
           <<"5","2",":","1","3",":">>,
           <<"1",":","0","0",":","0","0",":","0","0">>,
           <<":","5","2",":","1","3">>, <<"5","2",".","1","3">>,
           <<"-","1",":","0","0">> }

\* columns of one or two cells
TimeColumns ==
  { << t >> : t \in TimeTexts }
    \cup { << t, <<"1",":","0","0",":","0","0">> >> : t \in TimeTexts }

InitLoad ==
  /\ InitDriver
  /\ cl_code = << >> /\ cl_label = "?"
  /\ pr_soup = << >> /\ pr_out = << >>
  /\ ts_t \in TimeColumns /\ ts_out = << >>
  /\ js_resp = << >> /\ js_out = << >>

\* one call of load_data
LoadData ==
  /\ ts_out = << >>
  /\ ts_out' = << load_data(ts_t) >>
  /\ UNCHANGED << fileVars, run, pc, done_keys, loopVars, comboVars,
                  runStart, histVars, collected, cutVars, netVars, clVars,
                  pr_soup, pr_out, ts_t, js_resp, js_out >>

SpecLoad == InitLoad /\ [][LoadData]_vars

\* ------------------------------- get_event_groups and get_event_codes
\* A decoded JSON value is a record with its type t and, by type, the number
\* n, the characters s, the items of the array or the members m of the object.
J_NULL     == [t |-> "null"]
JNum(n)    == [t |-> "num", n |-> n]
JStr(s)    == [t |-> "str", s |-> s]
JArr(xs)   == [t |-> "arr", items |-> xs]
JObj(m)    == [t |-> "obj", m |-> m]

\* the result of an expression: its value, or the exception it raises
Value(v)   == [exc |-> "none", v |-> v]
Raises(e)  == [exc |-> e, v |-> J_NULL]

\* d[key] for a string key
Subscript(d, key) ==
  IF d.t = "obj"
    THEN IF key \in DOMAIN d.m THEN Value(d.m[key]) ELSE Raises("KeyError")
    ELSE Raises("TypeError")

\* v[i] for an integer i
Index(v, i) ==
  CASE v.t = "arr" -> IF i < Len(v.items) THEN Value(v.items[i + 1])
                      ELSE Raises("IndexError")
    [] v.t = "str" -> IF i < Len(v.s) THEN Value(JStr(<< v.s[i + 1] >>))
                      ELSE Raises("IndexError")
    [] v.t = "obj" -> Raises("KeyError")
    [] OTHER       -> Raises("TypeError")

\* bool(v)
Truthy(v) ==
  CASE v.t = "null" -> FALSE
    [] v.t = "num"  -> v.n # 0
    [] v.t = "str"  -> v.s # << >>
    [] v.t = "arr"  -> v.items # << >>
    [] v.t = "obj"  -> DOMAIN v.m # {}

\* len(v) >= 2
LenAtLeast2(v) ==
  CASE v.t = "arr" -> Value(Len(v.items) >= 2)
    [] v.t = "str" -> Value(Len(v.s) >= 2)
    [] v.t = "obj" -> Value(Cardinality(DOMAIN v.m) >= 2)
    [] OTHER       -> Raises("TypeError")

\* item.get("v"): only an object has the method
GetV(item) ==
  IF item.t = "obj"
    THEN Value(IF "v" \in DOMAIN item.m THEN item.m["v"] ELSE J_NULL)
    ELSE Raises("AttributeError")

\* iter(x): the items of an array, the characters of a string, the keys of
\* an object (each a string)
IterItems(x) ==
  CASE x.t = "arr" -> Value(x.items)
    [] x.t = "str" -> Value([i \in 1..Len(x.s) |-> JStr(<< x.s[i] >>)])
    [] x.t = "obj" ->
         Value(IF DOMAIN x.m = {} THEN << >>
               ELSE << JStr(<< CHOOSE k \in DOMAIN x.m : TRUE >>) >>)
    [] OTHER       -> Raises("TypeError")

\* data[path[1]][path[2]]...
RECURSIVE Navigate(_, _)
Navigate(data, path) ==
  IF path = << >> THEN Value(data)
  ELSE LET r == Subscript(data, Head(path))
       IN  IF r.exc # "none" THEN r ELSE Navigate(r.v, Tail(path))

GROUPS_PATH == << "branches", "lists", "fields", "event_main_group", "data" >>
CODES_PATH  == << "branches", "lists", "fields", "event", "data" >>
TOP_PATH    == << "event", "data" >>

\* what a call does: it returns the list ret, or raises exc
Returns(list) == [exc |-> "none", ret |-> list]
Throws(e)     == [exc |-> e, ret |-> << >>]

\* [{"value": item["v"][0], "text": item["v"][1]} for item in items
\*  if item.get("v")]
RECURSIVE groups_of(_)
groups_of(items) ==
  IF items = << >> THEN Returns(<< >>)
  ELSE LET item == Head(items)
           g    == GetV(item)
           v0   == Index(g.v, 0)
           v1   == Index(g.v, 1)
           rest == groups_of(Tail(items))
       IN  IF g.exc # "none" THEN Throws(g.exc)
           ELSE IF ~Truthy(g.v) THEN rest
           ELSE IF v0.exc # "none" THEN Throws(v0.exc)
           ELSE IF v1.exc # "none" THEN Throws(v1.exc)
           ELSE IF rest.exc # "none" THEN rest
           ELSE Returns(<< [value |-> v0.v, text |-> v1.v] >> \o rest.ret)

\* get_event_groups after the request has returned r
get_event_groups(resp) ==
  IF ~resp.decodable THEN Returns(<< >>)
  ELSE LET emg_data == Navigate(resp.data, GROUPS_PATH)
       IN  IF emg_data.exc \in { "KeyError", "TypeError" }
             THEN Returns(<< >>)
           ELSE IF IterItems(emg_data.v).exc # "none"
             THEN Throws(IterItems(emg_data.v).exc)
           ELSE groups_of(IterItems(emg_data.v).v)

\* the loop of get_event_codes over ev_data
RECURSIVE codes_of(_)
codes_of(items) ==
  IF items = << >> THEN Returns(<< >>)
  ELSE LET item == Head(items)
           g    == GetV(item)
           n    == LenAtLeast2(g.v)
           v0   == Index(g.v, 0)
           v1   == Index(g.v, 1)
           rest == codes_of(Tail(items))
       IN  IF g.exc # "none" THEN Throws(g.exc)
           ELSE IF ~Truthy(g.v) THEN rest
           ELSE IF n.exc # "none" THEN Throws(n.exc)
           ELSE IF ~n.v THEN rest
           ELSE IF v0.exc # "none" THEN Throws(v0.exc)
           ELSE IF v1.exc # "none" THEN Throws(v1.exc)
           ELSE IF rest.exc # "none" THEN rest
           ELSE Returns(<< [value |-> v0.v, text |-> v1.v] >> \o rest.ret)

\* the list the loop runs over
codes_from(ev_data) ==
  IF IterItems(ev_data).exc # "none" THEN Throws(IterItems(ev_data).exc)
  ELSE codes_of(IterItems(ev_data).v)

\* mutant: the top-level list is tried first
get_event_codes_topfirst(resp) ==
  IF ~resp.decodable THEN Returns(<< >>)
  ELSE LET nested == Navigate(resp.data, CODES_PATH)
           top    == Navigate(resp.data, TOP_PATH)
       IN  IF top.exc \notin { "KeyError", "TypeError" }
             THEN codes_from(top.v)
           ELSE IF nested.exc \notin { "KeyError", "TypeError" }
             THEN codes_from(nested.v)
           ELSE Returns(<< >>)

\* get_event_codes after the request has returned r
get_event_codes(resp) ==
  IF ~resp.decodable THEN Returns(<< >>)
  ELSE LET nested == Navigate(resp.data, CODES_PATH)
           top    == Navigate(resp.data, TOP_PATH)
       IN  IF nested.exc \notin { "KeyError", "TypeError" }
             THEN codes_from(nested.v)
           ELSE IF top.exc \notin { "KeyError", "TypeError" }
             THEN codes_from(top.v)
           ELSE Returns(<< >>)

\* response bodies of getSearchFields
One(k, v)  == JObj([x \in { k } |-> v])
Entry(v)   == One("v", v)
Pair(a, b) == Entry(JArr(<< JStr(a), JStr(b) >>))

PAIR_A == Pair(<<"H","_","A">>, <<"A">>)
PAIR_C == Pair(<<"H","_","C">>, <<"C">>)

\* an entry whose "v" has one element
SINGLE_V == Entry(JArr(<< JStr(<<"H","_","A">>) >>))

\* values of the "data" member: option lists, with entries that carry a
\* (value, text) pair and entries that do not, and values that are no list
NestedData ==
  { JArr(<< >>), JArr(<< PAIR_A >>), JArr(<< PAIR_A, PAIR_C >>),
    JArr(<< One("x", JNum(7)) >>),
    JArr(<< Entry(JArr(<< >>)), Entry(J_NULL) >>), JArr(<< SINGLE_V >>),
    JArr(<< PAIR_A, SINGLE_V >>), JArr(<< JStr(<<"H","_","A">>) >>),
    JArr(<< One("x", JNum(7)), PAIR_C >>), J_NULL, JObj(<< >>) }

\* values that stand where an object with the next key is expected
BadValues ==
  { J_NULL, JNum(7), JStr(<<"n","o">>), JArr(<< >>), JObj(<< >>) }

\* the value under "branches" for the listing key: the full path to a data
\* value, or the path broken at one of its levels
BranchValues(key) ==
  { One("lists", One("fields", One(key, One("data", d)))) : d \in NestedData }
    \cup BadValues
    \cup { One("lists", b) : b \in BadValues }
    \cup { One("lists", One("fields", b)) : b \in BadValues }
    \cup { One("lists", One("fields", One(key, b))) : b \in BadValues }

EventValues ==
  { One("data", d) :
      d \in { JArr(<< >>), JArr(<< PAIR_C >>), JArr(<< SINGLE_V >>), J_NULL } }
    \cup BadValues

Bodies(key) ==
  { JObj([k \in { "branches", "event" } |->
            IF k = "branches" THEN b ELSE e]) :
      b \in BranchValues(key), e \in EventValues }
    \cup { One("branches", b) : b \in BranchValues(key) }
    \cup { One("event", e) : e \in EventValues }
    \cup BadValues

Responses ==
  { [decodable |-> TRUE, data |-> d] :
      d \in Bodies("event") \cup Bodies("event_main_group") }
    \cup { [decodable |-> FALSE, data |-> J_NULL] }

InitFields ==
  /\ InitDriver
  /\ cl_code = << >> /\ cl_label = "?"
  /\ pr_soup = << >> /\ pr_out = << >>
  /\ ts_t = << >> /\ ts_out = << >>
  /\ js_resp \in Responses /\ js_out = << >>

\* one call of get_event_groups whose request succeeds
CallGetEventGroups ==
  /\ js_out = << >>
  /\ js_out' = << [fn |-> "get_event_groups",
                   res |-> get_event_groups(js_resp)] >>
  /\ UNCHANGED << fileVars, run, pc, done_keys, loopVars, comboVars,
                  runStart, histVars, collected, cutVars, netVars, clVars,
                  pr_soup, pr_out, ts_t, ts_out, js_resp >>

\* one call of get_event_codes whose request succeeds
CallGetEventCodes ==
  /\ js_out = << >>
  /\ js_out' = << [fn |-> "get_event_codes",
                   res |-> get_event_codes(js_resp)] >>
  /\ UNCHANGED << fileVars, run, pc, done_keys, loopVars, comboVars,
                  runStart, histVars, collected, cutVars, netVars, clVars,
                  pr_soup, pr_out, ts_t, ts_out, js_resp >>

NextFields == CallGetEventGroups \/ CallGetEventCodes

SpecFields == InitFields /\ [][NextFields]_vars

\* ======================================================== properties
IsPrefix(a, b) == Len(a) <= Len(b) /\ SubSeq(b, 1, Len(a)) = a

RowKey(line) == << line.event_code, line.gender >>

\* the keys that had a row in the store when the current run started
KeysAtStart == { RowKey(store[i]) : i \in 2..runStart }

\* the lines the current scrape_combo call has put on disk
Mine == SubSeq(store, comboStart + 1, Len(store))

\* two letters equal up to case
SameLetter(a, b) == LowerChar(a) = LowerChar(b)

\* code starts with prefix, case ignored
StartsWithNoCase(code, prefix) ==
  /\ Len(prefix) <= Len(code)
  /\ \A j \in 1..Len(prefix) : SameLetter(code[j], prefix[j])

Matching(code) ==
  { i \in 1..Len(CATEGORY_PREFIXES) :
      StartsWithNoCase(code, CATEGORY_PREFIXES[i].prefix) }

\* the label of the longest configured prefix of code, else the default
LongestPrefixLabel(code) ==
  IF Matching(code) = {} THEN "HYROX"
  ELSE LET best == CHOOSE i \in Matching(code) :
                     \A j \in Matching(code) :
                        Len(CATEGORY_PREFIXES[i].prefix)
                          >= Len(CATEGORY_PREFIXES[j].prefix)
       IN  CATEGORY_PREFIXES[best].name

\* code names an overall ranking
HasOverall(code) ==
  \E i \in 1..Len(code) :
     /\ i + Len(OVERALL) - 1 <= Len(code)
     /\ \A j \in 1..Len(OVERALL) : SameLetter(code[i + j - 1], OVERALL[j])

\* ceil(t / p) for t > 0
CeilDiv(t, p) == CHOOSE n \in 1..t : n * p >= t /\ (n - 1) * p < t

RECURSIVE Flat(_, _)
\* the athletes of pages 1..m, in page order
Flat(pages, m) == IF m = 0 THEN << >> ELSE Flat(pages, m - 1) \o pages[m]

\* the line the store must hold for athlete a of the current key
ExpRow(a) ==
  [ season           |-> SEASON_BASES[season],
    event_main_group |-> event_groups[eg].value,
    event_code       |-> CurKey[1],
    event_label      |-> use_opts[ev].text,
    category         |-> LongestPrefixLabel(CurKey[1]),
    gender           |-> CurKey[2],
    rank             |-> a.rank ]

\* the lines of pages 1..m of the current key
ExpLines(m) ==
  [i \in 1..Len(Flat(parsed, m)) |-> ExpRow(Flat(parsed, m)[i])]

\* C1: in a run started with a row for key K in the store, no results request
\* is issued for K and no line for K is written or appended.
C1_NoRefetch ==
  /\ (pc \in InKey \cup {"returned"} /\ reqPages # << >>)
        => CurKey \notin KeysAtStart
  /\ \A i \in (runStart + 1)..Len(store) :
        i > 1 => RowKey(store[i]) \notin KeysAtStart
  /\ \A i \in 1..Len(buf) :
        buf[i] # FIELDNAMES => RowKey(buf[i]) \notin KeysAtStart

\* C1 witness: a second run has skipped a key that had a row at its start
C1_Witness ==
  /\ run >= 2 /\ pc = "returned" /\ outcome = "skipped"
  /\ CurKey \in KeysAtStart

\* C2 as stated: a key cut short in an earlier run after a flush is
\* attempted again (results requests are issued for it) when a later run
\* comes to it. The first group of the first season is looked at, where no
\* earlier call of the same run can have dealt with the key.
C2_CutShortRefetched ==
  (pc = "returned" /\ CurKey \in cutPrev /\ season = 1 /\ eg = 1)
     => (outcome # "skipped" /\ reqPages # << >>)

\* C2 amended: a key cut short in an earlier run of which a row reached the
\* store is skipped by a later run: no request, nothing written.
C2_CutShortSkipped ==
  (pc = "returned" /\ CurKey \in cutPrev /\ CurKey \in KeysAtStart)
     => /\ outcome = "skipped" /\ reqPages = << >>
        /\ Len(store) + Len(buf) = comboStart

\* C2 witness: a later run has come to a key cut short with rows on disk
C2_Witness ==
  /\ run >= 2 /\ pc = "returned"
  /\ CurKey \in cutPrev /\ CurKey \in KeysAtStart

\* C3: while a key is collected, every row of every page before the one in
\* flight is on disk, and when the next page is about to be requested
\* nothing is buffered and the rows of all earlier pages are on disk.
C3_FlushBeforeNextFetch ==
  pc \in InKey =>
    /\ IsPrefix(ExpLines(page_num - 1), Mine)
    /\ Len(ExpLines(Len(parsed))) - Len(Mine)
          <= Len(parsed[Len(parsed)])
    /\ pc = "fetch" => (buf = << >> /\ Mine = ExpLines(page_num - 1))

\* C3 witness: page 3 is about to be requested with two pages of rows on disk
C3_Witness ==
  /\ pc = "fetch" /\ page_num = 3
  /\ Len(parsed[1]) > 0 /\ Len(parsed[2]) > 0
  /\ Len(Mine) = Len(parsed[1]) + Len(parsed[2])

\* C4: every step leaves the lines of the store a prefix of its lines after
\* the step.
C4_AppendOnly == [][IsPrefix(store, store')]_vars

\* C4 witness: a second run has appended to a store that had rows
C4_Witness == run >= 2 /\ runStart >= 2 /\ Len(store) > runStart

\* C5: the page count computed is ceil(T/P); at most MAX_PAGES requests are
\* issued for a key and none for a page beyond min(ceil(T/P), MAX_PAGES).
C5_PageCount ==
  total_count > 0 =>
    /\ total_pages = CeilDiv(total_count, PER_PAGE)
    /\ Len(reqPages) <= MAX_PAGES
    /\ \A i \in 1..Len(reqPages) :
          reqPages[i] <= Min(CeilDiv(total_count, PER_PAGE), MAX_PAGES)

\* C5 witness: a ranking of 76 pages was collected with MAX_PAGES requests
C5_Witness ==
  /\ pc = "returned" /\ outcome = "done"
  /\ total_count = 1883 /\ Len(reqPages) = MAX_PAGES

\* C6: a key collected without failure took requests for pages 1..N in order,
\* N = min(ceil(T/P), MAX_PAGES), and N flushes; it is in done_keys and the
\* store holds the rows of those pages, each with the annotation of the key.
C6_FullCollection ==
  (pc = "returned" /\ outcome = "done") =>
    LET N == Min(CeilDiv(total_count, PER_PAGE), MAX_PAGES)
    IN  /\ reqPages = [i \in 1..N |-> i]
        /\ nflush = N
        /\ Len(parsed) = N
        /\ CurKey \in done_keys
        /\ buf = << >>
        /\ Mine = ExpLines(N)

\* C6 witness: T = 30 collected with two requests, two flushes, a row a page
C6_Witness ==
  /\ pc = "returned" /\ outcome = "done" /\ total_count = 30
  /\ nflush = 2 /\ Len(Mine) = 2 * MaxRows /\ MaxRows > 0

\* C7: when the request for page n > 1 fails, page n is the last one
\* requested, the store holds the rows of pages 1..n-1 and the key is in
\* done_keys.
C7_PageErrorStops ==
  (pc = "returned" /\ outcome = "partial") =>
    /\ page_num > 1
    /\ reqPages = [i \in 1..page_num |-> i]
    /\ Mine = ExpLines(page_num - 1)
    /\ buf = << >>
    /\ CurKey \in done_keys

\* C7 witness: page 3 failed after two pages with rows
C7_Witness ==
  /\ pc = "returned" /\ outcome = "partial" /\ page_num = 3
  /\ Len(Mine) = 2 * MaxRows /\ MaxRows > 0

\* C8 as stated: whatever the remote answers, the run is not aborted.
C8_RunNotAborted == pc # "aborted"

\* C9: category_from_code returns the label of the longest configured prefix
\* the code starts with, case ignored, and the default label when there is
\* none.
C9_LongestPrefix ==
  cl_label # "?" => cl_label = LongestPrefixLabel(cl_code)

\* C9 witness: a code in lower case was given the label of a four-letter
\* prefix
C9_Witness ==
  /\ cl_label = "HYROX PRO DOUBLES"
  /\ cl_code # Upper(cl_code)

\* the codes of a list of options
CodeSet(opts) == { opts[i].value : i \in 1..Len(opts) }

\* the codes C10 wants collected from the options a group offers
ExpectedCodes(opts) ==
  LET open == { c \in CodeSet(opts) : LongestPrefixLabel(c) = "HYROX" }
      over == { c \in open : HasOverall(c) }
  IN  IF over # {} THEN over ELSE open \ over

\* C10: the codes chosen for a group are its Open overall codes when there is
\* one and else its Open codes that are not overall; exactly the chosen codes
\* are passed to scrape_combo, and a group is left without a choice only when
\* it offers no Open code.
C10_Selection ==
  [][ /\ (pc = "opts" /\ pc' = "combo")
           => CodeSet(use_opts') = ExpectedCodes(event_opts)
      /\ (pc = "opts" /\ pc' = "group")
           => ExpectedCodes(event_opts) = {}
      /\ pc' \notin Stopped => collected' \subseteq CodeSet(use_opts')
      /\ (pc = "combo" /\ pc' = "group")
           => collected = CodeSet(use_opts) ]_vars

\* C10 witness: all chosen codes of a group were collected, and the group
\* offered more Open codes than were chosen
C10_Witness ==
  /\ pc = "combo" /\ ev > Len(use_opts)
  /\ collected = CodeSet(use_opts) /\ collected # {}
  /\ Len(event_opts) > Len(use_opts)


\* ------------------------------------------------------------------ C11
\* the text a reader sees in a cell: the children that are not mobile-only
\* labels, each without the blanks around it; empty when the cell is missing
Trimmed(t) ==
  IF \A i \in 1..Len(t) : t[i] = " " THEN << >>
  ELSE LET a == CHOOSE i \in 1..Len(t) :
                  t[i] # " " /\ \A j \in 1..(i - 1) : t[j] = " "
           b == CHOOSE i \in 1..Len(t) :
                  t[i] # " " /\ \A j \in (i + 1)..Len(t) : t[j] = " "
       IN  SubSeq(t, a, b)

IsShown(node) == ~node.mobile

VisibleText(cell) ==
  IF cell = << >> THEN << >>
  ELSE LET shown == SelectSeq(cell[1], IsShown)
       IN  Flat([k \in 1..Len(shown) |-> Trimmed(shown[k].text)], Len(shown))

YieldsRecord(li) ==
  /\ is_result_row(li)
  /\ Lower(VisibleText(li.rank)) \notin { << >>, RANK_WORD }
  /\ VisibleText(li.name) # << >>

\* C11: parse_result_rows returns no record for a row whose rank text is
\* empty or "rank" in any letter case, none for a row whose name is empty,
\* and for every other row exactly one record, in document order, whose
\* five fields are the texts of the row's sub-elements, the empty text
\* standing for a missing sub-element.
C11_RowExtraction ==
  pr_out # << >> =>
    LET out  == pr_out[1]
        kept == SelectSeq(pr_soup, YieldsRecord)
    IN  /\ Len(out) = Len(kept)
        /\ \A k \in 1..Len(kept) :
             out[k] = [ rank        |-> VisibleText(kept[k].rank),
                        athlete     |-> VisibleText(kept[k].name),
                        nationality |-> VisibleText(kept[k].nat),
                        age_group   |-> VisibleText(kept[k].age),
                        total_time  |-> VisibleText(kept[k].time) ]

\* a row without a nationality element gave a record with an empty
\* nationality and the other four fields filled
C11_Witness ==
  /\ pr_out # << >> /\ Len(pr_out[1]) = 2
  /\ pr_soup[1].nat = NoCell
  /\ pr_out[1][1].nationality = << >>
  /\ pr_out[1][1].rank # << >> /\ pr_out[1][1].athlete # << >>
  /\ pr_out[1][1].age_group # << >> /\ pr_out[1][1].total_time # << >>

\* ------------------------------------------------------------------ C12
\* the number written by a string of decimal digits
Pow10(n) == IF n = 0 THEN 1 ELSE IF n = 1 THEN 10 ELSE IF n = 2 THEN 100
            ELSE IF n = 3 THEN 1000 ELSE 10000

Decimal(s) ==
  LET Sum[i \in 0..Len(s)] ==
        IF i = 0 THEN 0
        ELSE Sum[i - 1] + DigitVal(s[i]) * Pow10(Len(s) - i)
  IN  Sum[Len(s)]

\* the positions of the colons of u
Colons(u) == { i \in 1..Len(u) : u[i] = ":" }

DigitsElsewhere(u) == \A k \in 1..Len(u) : k \in Colons(u) \/ IsDigit(u[k])

\* t, blanks around it aside, is H:MM:SS
IsHMS(t) ==
  LET u == Trimmed(t)
  IN  /\ Len(u) >= 7 /\ DigitsElsewhere(u)
      /\ Colons(u) = { Len(u) - 5, Len(u) - 2 }

ValueHMS(t) ==
  LET u == Trimmed(t)
  IN  3600 * Decimal(SubSeq(u, 1, Len(u) - 6))
        + 60 * Decimal(SubSeq(u, Len(u) - 4, Len(u) - 3))
        + Decimal(SubSeq(u, Len(u) - 1, Len(u)))

\* t, blanks around it aside, is M:SS
IsMS(t) ==
  LET u == Trimmed(t)
  IN  Len(u) >= 4 /\ DigitsElsewhere(u) /\ Colons(u) = { Len(u) - 2 }

ValueMS(t) ==
  LET u == Trimmed(t)
  IN  60 * Decimal(SubSeq(u, 1, Len(u) - 3))
        + Decimal(SubSeq(u, Len(u) - 1, Len(u)))

HasTimeForm(t) == ~pd_isna(t) /\ (IsHMS(t) \/ IsMS(t))

\* C12: load_data keeps exactly the rows whose total_time is of the form
\* H:MM:SS or M:SS, in order, with total_seconds 3600*H + 60*MM + SS and
\* 60*M + SS, and drops every row whose total_time has neither form.
C12_TimeParsing ==
  ts_out # << >> =>
    LET out  == ts_out[1]
        kept == SelectSeq(ts_t, HasTimeForm)
    IN  /\ Len(out) = Len(kept)
        /\ \A k \in 1..Len(kept) :
             /\ out[k].total_time = kept[k]
             /\ out[k].total_seconds =
                  IF IsHMS(kept[k]) THEN ValueHMS(kept[k])
                  ELSE ValueMS(kept[k])

\* "0:52:13" or "52:13" was loaded as 3133 seconds
C12_Witness ==
  /\ ts_out # << >> /\ Len(ts_out[1]) = 2
  /\ ts_t[1] \in { <<"0",":","5","2",":","1","3">>, <<"5","2",":","1","3">> }
  /\ ts_out[1][1].total_seconds = 3133

\* ------------------------------------------------------------------ C13
\* C13: a request goes out only in a state where the pause of its polite_get
\* call has just elapsed and no other request is in flight, so that at most
\* one request is in flight at any time.
C13_PoliteSequential ==
  /\ [](inflight <= 1)
  /\ [][inflight' > inflight => slept /\ inflight = 0]_vars

\* the request for a later results page is in flight
C13_Witness == inflight = 1 /\ pc = "fetch" /\ page_num = 2

\* ------------------------------------------------------------------ C14
\* the value reached from d through the first n keys of path, J_NULL when
\* one of the keys is not there
ValueAt(d, path, n) ==
  LET At[i \in 0..n] ==
        IF i = 0 THEN d
        ELSE IF At[i - 1].t = "obj" /\ path[i] \in DOMAIN At[i - 1].m
             THEN At[i - 1].m[path[i]] ELSE J_NULL
  IN  At[n]

\* every key of path is there, each in an object
PathExists(d, path) ==
  \A i \in 1..Len(path) :
     /\ ValueAt(d, path, i - 1).t = "obj"
     /\ path[i] \in DOMAIN ValueAt(d, path, i - 1).m

Called(fn) == js_out # << >> /\ js_out[1].fn = fn

\* C14: get_event_codes works on the list under branches.lists.fields.event
\* when that path is in the body, on the list under event only when the
\* nested path is missing, and returns the empty list without raising when
\* neither path is there or the body cannot be decoded.
C14_NestedFirst ==
  Called("get_event_codes") =>
    LET d   == js_resp.data
        res == js_out[1].res
    IN  IF js_resp.decodable /\ PathExists(d, CODES_PATH)
          THEN res = codes_from(ValueAt(d, CODES_PATH, 5))
        ELSE IF js_resp.decodable /\ PathExists(d, TOP_PATH)
          THEN res = codes_from(ValueAt(d, TOP_PATH, 2))
        ELSE res = Returns(<< >>)

\* both lists were in the body, with different options, and the call
\* returned the options of the nested one
C14_Witness ==
  /\ Called("get_event_codes")
  /\ PathExists(js_resp.data, CODES_PATH) /\ PathExists(js_resp.data, TOP_PATH)
  /\ ValueAt(js_resp.data, TOP_PATH, 2) = JArr(<< PAIR_C >>)
  /\ js_out[1].res = Returns(<< [value |-> JStr(<<"H","_","A">>),
                                 text  |-> JStr(<<"A">>)] >>)

\* ------------------------------------------------------------------ C15
\* an option entry that carries a (value, text) pair
CarriesPair(item) ==
  /\ item.t = "obj" /\ "v" \in DOMAIN item.m
  /\ item.m["v"].t = "arr" /\ Len(item.m["v"].items) = 2

\* the body has no option list on the data path, or the list has an entry
\* without a pair
UnexpectedShape(resp) ==
  \/ ~resp.decodable
  \/ ~PathExists(resp.data, GROUPS_PATH)
  \/ ValueAt(resp.data, GROUPS_PATH, 5).t # "arr"
  \/ \E i \in 1..Len(ValueAt(resp.data, GROUPS_PATH, 5).items) :
        ~CarriesPair(ValueAt(resp.data, GROUPS_PATH, 5).items[i])

NoPairAtAll(resp) ==
  \/ ~resp.decodable
  \/ ~PathExists(resp.data, GROUPS_PATH)
  \/ ValueAt(resp.data, GROUPS_PATH, 5).t # "arr"
  \/ \A i \in 1..Len(ValueAt(resp.data, GROUPS_PATH, 5).items) :
        ~CarriesPair(ValueAt(resp.data, GROUPS_PATH, 5).items[i])

\* C15 as stated: when the request succeeds and the body has an unexpected
\* shape or no data, get_event_groups does not raise, and it returns the
\* empty list when no entry carries a (value, text) pair.
C15_ShapeTolerated ==
  Called("get_event_groups") /\ UnexpectedShape(js_resp) =>
    /\ js_out[1].res.exc = "none"
    /\ NoPairAtAll(js_resp) => js_out[1].res.ret = << >>

\* ------------------------------------------------------------------ C16
\* C16: in every state of the store, whatever runs, crashes and errors came
\* before, the rows of one (event_code, gender) key were all written by one
\* scrape_combo call.
C16_SingleWriter ==
  \A i, j \in 2..Len(store) :
     RowKey(store[i]) = RowKey(store[j]) => who[i] = who[j]

\* the second run meets a key whose two pages the first run put in the
\* store, and skips it
C16_Witness ==
  /\ run = 2 /\ pc = "returned" /\ outcome = "skipped"
  /\ Cardinality({ i \in 2..Len(store) : RowKey(store[i]) = CurKey }) = 2

\* ------------------------------------------------------------------ C17
\* what the scrape_combo call that has just returned did
NoRowAppended == Len(store) + Len(buf) = comboStart

EndsSkipped ==
  outcome = "skipped" /\ CurKey \in done_keys /\ reqPages = << >>
    /\ NoRowAppended

EndsEmpty ==
  outcome = "empty" /\ total_count = 0 /\ reqPages = << 1 >> /\ NoRowAppended

EndsDone ==
  outcome \in { "done", "partial" } /\ total_count > 0
    /\ Len(reqPages) >= 1 /\ CurKey \in done_keys

EndsFailed ==
  outcome = "error" /\ reqPages = << 1 >> /\ NoRowAppended
    /\ CurKey \notin done_keys

C18_AttemptedKeyDone == pc = "returned" => CurKey \in done_keys

\* ------------------------------------------------------------------ C19
\* the row of athlete a of option o collected under group g of season s
RowUnder(s, g, o, a) ==
  [ season           |-> SEASON_BASES[s],
    event_main_group |-> g.value,
    event_code       |-> o.value,
    event_label      |-> o.text,
    category         |-> LongestPrefixLabel(o.value),
    gender           |-> GENDERS[1],
    rank             |-> a.rank ]

\* the rows a run leaves when the seasons are taken in the configured order,
\* the groups as EG1, EG2 and the options as OPT_DAY, OPT_PLAIN
ReferenceRows ==
  { RowUnder(1, EG1, o, Athletes(MaxRows, p)[i]) :
      o \in { OPT_DAY, OPT_PLAIN }, p \in 1..2, i \in 1..MaxRows }

\* C19 as stated: against an upstream that does not fail, the set of rows in
\* the store at the end of a run is the same whatever the order of the event
\* groups and event options, also when an event code is offered by more than
\* one group and season.
C19_OrderIndependent ==
  pc = "finished" =>
    { store[i] : i \in 2..Len(store) } = ReferenceRows

\* ------------------------------------------------------------------ C20
\* C20: the pages of a key are requested in the order 1, 2, ..., and in the
\* store the rows of one key have ranks that never decrease from one line
\* to a later one, upstream serving each ranking sorted by rank; this holds
\* also when the pagination stops early.
C20_RankOrder ==
  /\ \A k \in 1..Len(reqPages) : reqPages[k] = k
  /\ \A i, j \in 2..Len(store) :
       i < j /\ RowKey(store[i]) = RowKey(store[j])
         => store[i].rank <= store[j].rank

\* a ranking of four pages was cut short by a page error after two pages of
\* two rows each
C20_Witness ==
  /\ pc = "returned" /\ outcome = "partial" /\ fetch_pages = 4
  /\ Len(Mine) = 4 /\ Mine[2].rank = 2 /\ Mine[3].rank = PER_PAGE + 1

\* ------------------------------------------------------------------ C21
\* the label configured for the Open prefix H_
OpenLabel ==
  CATEGORY_PREFIXES[CHOOSE i \in 1..Len(CATEGORY_PREFIXES) :
                      CATEGORY_PREFIXES[i].prefix = <<"H","_">>].name

\* the options of opts whose code starts with none of the configured prefixes
Unprefixed(opts) ==
  { opts[i].value : i \in { k \in 1..Len(opts) :
                              opts[k].isstr /\ Matching(opts[k].value) = {} } }

\* C21: with the Open-only filter on, a code that starts with no configured
\* prefix passes the filter of its group like a code with the Open prefix,
\* and every row stored for such a code has the category of the Open prefix.
C21_UnprefixedIsOpen ==
  /\ [](\A i \in 2..Len(store) :
          Matching(store[i].event_code) = {} => store[i].category = OpenLabel)
  /\ [][ (pc = "opts" /\ pc' \notin Stopped /\ Unprefixed(event_opts) # {})
           => /\ pc' = "combo"
              /\ Unprefixed(event_opts) \subseteq CodeSet(event_opts') ]_vars

\* a row of an unprefixed code is in the store with the Open category
C21_Witness ==
  \E i \in 2..Len(store) :
     /\ Matching(store[i].event_code) = {}
     /\ store[i].category = category_from_code(<<"H","_","S","A","T">>)

\* ------------------------------------------------------------------ C22
\* the header is the first line of file and none of its other lines
OneHeaderFirst(file) ==
  Len(file) > 0 => /\ file[1] = FIELDNAMES
                   /\ \A i \in 2..Len(file) : file[i] # FIELDNAMES

\* C22: starting from a missing or empty store, after any number of runs the
\* store (and the store with what its open handle still holds) has exactly
\* one header row, as its first line; a run writes the header exactly when
\* it finds the file empty, whether or not it appends athlete rows.
C22_OneHeader ==
  /\ [](OneHeaderFirst(store) /\ OneHeaderFirst(store \o buf))
  /\ [](pc = "finished" => Len(store) > 0)
  /\ [][ run' # run =>
           ((\E i \in 1..Len(buf') : buf'[i] = FIELDNAMES) <=> Len(store) = 0) ]_vars

\* a later run found the store non-empty and ended having appended no row
C22_Witness ==
  /\ run >= 2 /\ pc = "finished"
  /\ runStart >= 1 /\ Len(store) = runStart
  /\ store[1] = FIELDNAMES

====
